---- MODULE Spec2Model ----
(***************************************************************************)
(* Steady-state mass balance of a flotation circuit (splitfactor).         *)
(*                                                                         *)
(* The model follows src/splitfactor/core: Flujo / Celda / Suma            *)
(* (equipos.py), identificar_flujos_globales (io.py) and Simulador         *)
(* (simulador.py): Spec is one simular() call, SpecMC one                  *)
(* simular_montecarlo() call, SpecFlujo the methods of one Flujo and       *)
(* SpecReciclo the 100 passes of simular() on the two-node recycle loop.   *)
(* Python floats are exact rationals <<numerator, denominator>> in lowest  *)
(* terms, so equalities that the code satisfies "within floating           *)
(* tolerance" are exact here; SpecReciclo encloses them in fixed point.    *)
(***************************************************************************)
EXTENDS Integers, Sequences, FiniteSets

(* ---------------------------------------------------------------- bounds *)

\* Largest number of equipos in a circuit.
MaxEquipos == 2

\* Largest value of iteraciones_convergencia explored (the code's default is 100).
MaxIter == 2

(* ------------------------------------------------------------- rationals *)

Abs(x) == IF x < 0 THEN -x ELSE x

RECURSIVE GCD(_, _)
GCD(a, b) == IF b = 0 THEN a ELSE GCD(b, a % b)

\* The rational n/d (d # 0) in lowest terms with a positive denominator.
Rat(n, d) ==
    LET g == GCD(Abs(n), Abs(d))
        s == IF d < 0 THEN -1 ELSE 1
    IN  <<(s * n) \div g, (s * d) \div g>>

Cero == <<0, 1>>
Uno  == <<1, 1>>
Cien == <<100, 1>>

\* Sums and products cancel common factors first, to keep the integers small.
RAdd(a, b) ==
    LET g == GCD(a[2], b[2])
    IN  Rat(a[1] * (b[2] \div g) + b[1] * (a[2] \div g), (a[2] \div g) * b[2])
RNeg(a) == <<-a[1], a[2]>>
RSub(a, b) == RAdd(a, RNeg(b))
RMul(a, b) ==
    LET g1 == GCD(Abs(a[1]), b[2])
        g2 == GCD(Abs(b[1]), a[2])
    IN  Rat((a[1] \div g1) * (b[1] \div g2), (a[2] \div g2) * (b[2] \div g1))
\* a / b for b # 0.
RDiv(a, b) == RMul(a, Rat(b[2], b[1]))
\* Python's "x > 0".
RPos(a) == a[1] > 0

(* ------------------------------------------------------------------ Flujo *)

\* Flujo(id): masa = ley = contenido_fino = 0.0 (dataclass defaults).
FlujoNuevo == [masa |-> Cero, ley |-> Cero, contenido_fino |-> Cero]

\* Flujo.actualizar_contenido_fino: contenido_fino = masa * ley / 100.
ActualizarContenidoFino(f) ==
    [f EXCEPT !.contenido_fino = RDiv(RMul(f.masa, f.ley), Cien)]

\* Mutant of ActualizarLey: the guard is "masa != 0".
ActualizarLey_SiNoCero(f) ==
    [f EXCEPT !.ley = IF f.masa # Cero
                      THEN RMul(RDiv(f.contenido_fino, f.masa), Cien)
                      ELSE Cero]

\* Flujo.actualizar_ley: ley = contenido_fino / masa * 100 if masa > 0 else 0.0.
ActualizarLey(f) ==
    [f EXCEPT !.ley = IF RPos(f.masa)
                      THEN RMul(RDiv(f.contenido_fino, f.masa), Cien)
                      ELSE Cero]

(* ---------------------------------------------------------------- Equipo *)

\* Mutant of CeldaCalcular: the reject's mass takes the fine-content factor.
CeldaCalcular_RelaveConSpCuf(eq, flujos) ==
    LET e  == eq.flujos_entrada[1]
        c  == eq.flujos_salida[1]
        r  == eq.flujos_salida[2]
        sp_masa == eq.split_factor[1]
        sp_cuf  == eq.split_factor[2]
        f0 == [flujos EXCEPT ![e] = ActualizarContenidoFino(@)]
        f1 == [f0 EXCEPT ![c].masa = RMul(f0[e].masa, sp_masa)]
        f2 == [f1 EXCEPT ![r].masa = RMul(f1[e].masa, RSub(Uno, sp_cuf))]
        f3 == [f2 EXCEPT ![c].contenido_fino = RMul(f2[e].contenido_fino, sp_cuf)]
        f4 == [f3 EXCEPT ![r].contenido_fino =
                             RMul(f3[e].contenido_fino, RSub(Uno, sp_cuf))]
        f5 == [f4 EXCEPT ![c] = ActualizarLey(@)]
    IN  [f5 EXCEPT ![r] = ActualizarLey(@)]

\* Celda.calcular, statement by statement on the shared flow dictionary.
CeldaCalcular(eq, flujos) ==
    LET e  == eq.flujos_entrada[1]
        c  == eq.flujos_salida[1]
        r  == eq.flujos_salida[2]
        sp_masa == eq.split_factor[1]
        sp_cuf  == eq.split_factor[2]
        \* entrada.actualizar_contenido_fino()
        f0 == [flujos EXCEPT ![e] = ActualizarContenidoFino(@)]
        \* concentrado.masa = entrada.masa * sp_masa
        f1 == [f0 EXCEPT ![c].masa = RMul(f0[e].masa, sp_masa)]
        \* relave.masa = entrada.masa * (1 - sp_masa)
        f2 == [f1 EXCEPT ![r].masa = RMul(f1[e].masa, RSub(Uno, sp_masa))]
        \* concentrado.contenido_fino = entrada.contenido_fino * sp_cuf
        f3 == [f2 EXCEPT ![c].contenido_fino = RMul(f2[e].contenido_fino, sp_cuf)]
        \* relave.contenido_fino = entrada.contenido_fino * (1 - sp_cuf)
        f4 == [f3 EXCEPT ![r].contenido_fino =
                             RMul(f3[e].contenido_fino, RSub(Uno, sp_cuf))]
        \* concentrado.actualizar_ley(); relave.actualizar_ley()
        f5 == [f4 EXCEPT ![c] = ActualizarLey(@)]
    IN  [f5 EXCEPT ![r] = ActualizarLey(@)]

RECURSIVE AcumularEntradas_OmiteUltima(_, _, _, _)
\* Mutant of AcumularEntradas: the loop stops one input short.
AcumularEntradas_OmiteUltima(entradas, k, s, flujos) ==
    IF k >= Len(entradas) THEN flujos
    ELSE LET id == entradas[k]
             g1 == [flujos EXCEPT ![s].masa = RAdd(flujos[s].masa, flujos[id].masa)]
             g2 == [g1 EXCEPT ![s].contenido_fino =
                                  RAdd(g1[s].contenido_fino, g1[id].contenido_fino)]
         IN  AcumularEntradas_OmiteUltima(entradas, k + 1, s, g2)

\* The loop of Suma.calcular from input k on: salida += entrada, field by field.
RECURSIVE AcumularEntradas(_, _, _, _)
AcumularEntradas(entradas, k, s, flujos) ==
    IF k > Len(entradas) THEN flujos
    ELSE LET id == entradas[k]
             g1 == [flujos EXCEPT ![s].masa = RAdd(flujos[s].masa, flujos[id].masa)]
             g2 == [g1 EXCEPT ![s].contenido_fino =
                                  RAdd(g1[s].contenido_fino, g1[id].contenido_fino)]
         IN  AcumularEntradas(entradas, k + 1, s, g2)

\* Mutant of SumaCalcular: the output is not reset before the inputs are added.
SumaCalcular_SinReset(eq, flujos) ==
    LET s  == eq.flujos_salida[1]
        f1 == AcumularEntradas(eq.flujos_entrada, 1, s, flujos)
    IN  [f1 EXCEPT ![s] = ActualizarLey(@)]

\* Suma.calcular: reset the output, add every input, derive the ley.
SumaCalcular(eq, flujos) ==
    LET s  == eq.flujos_salida[1]
        f0 == [flujos EXCEPT ![s].masa = Cero, ![s].contenido_fino = Cero]
        f1 == AcumularEntradas(eq.flujos_entrada, 1, s, f0)
    IN  [f1 EXCEPT ![s] = ActualizarLey(@)]

(* ------------------------------------------------- circuits (the inputs) *)

\* Node shapes as crear_circuito_desde_dict reads them: nombre, tipo,
\* entrada, salida.  A Celda has one input and two outputs, a Suma one
\* output; no shape lists one of its own inputs as an output.  Together they
\* build chains (Celda 1, Scavenger), two feeds (Mezclador), the two-node
\* recycle loop (Mezclador, Limpieza) and a loop without feed (Retorno,
\* Limpieza).
Formas ==
    { [nombre |-> "Celda 1",   tipo |-> "celda", entrada |-> <<1>>,    salida |-> <<2, 3>>],
      [nombre |-> "Scavenger", tipo |-> "celda", entrada |-> <<3>>,    salida |-> <<4, 8>>],
      [nombre |-> "Limpieza",  tipo |-> "celda", entrada |-> <<5>>,    salida |-> <<6, 8>>],
      [nombre |-> "Mezclador", tipo |-> "suma",  entrada |-> <<1, 8>>, salida |-> <<5>>],
      [nombre |-> "Retorno",   tipo |-> "suma",  entrada |-> <<8>>,    salida |-> <<5>>] }

\* [split_masa, split_cuf] pairs within [0, 1]: the example's pair, no mass to
\* the concentrate, and all the mass but none of the fines to the concentrate.
SplitFactores ==
    { <<Rat(1, 10), Rat(3, 4)>>, <<Cero, Rat(1, 2)>>, <<Uno, Cero>> }

\* (masa, ley) pairs a caller feeds.
AlimValores == { <<Cien, Rat(3, 2)>>, <<Rat(50, 1), Cero>> }

\* The Equipo built for one eq_config: a Suma keeps the [0, 0] default.
CrearEquipo(forma, sp) ==
    [nombre         |-> forma.nombre,
     tipo           |-> forma.tipo,
     flujos_entrada |-> forma.entrada,
     flujos_salida  |-> forma.salida,
     split_factor   |-> IF forma.tipo = "celda" THEN sp ELSE <<Cero, Cero>>]

\* n distinct node shapes in insertion order (dictionary keys are unique).
FormasEnOrden(n) ==
    { g \in [1..n -> Formas] : \A i, j \in 1..n : i # j => g[i] # g[j] }

\* The equipos dictionaries explored, as sequences in insertion order.
Circuitos ==
    UNION { { [i \in 1..n |-> CrearEquipo(g[i], sp[i])] :
                 g \in FormasEnOrden(n), sp \in [1..n -> SplitFactores] } :
            n \in 1..MaxEquipos }

Rango(seq) == { seq[i] : i \in 1..Len(seq) }

\* Every flow id some node references (the keys of the flujos dictionary).
IdsReferenciados(equipos) ==
    UNION { Rango(equipos[i].flujos_entrada) \cup Rango(equipos[i].flujos_salida) :
            i \in 1..Len(equipos) }

\* crear_circuito_desde_dict: one zero-initialised Flujo per referenced id.
CrearFlujos(equipos) == [id \in IdsReferenciados(equipos) |-> FlujoNuevo]

\* Caller-declared relave sets: none, or one flow that some node produces.
RelaveOpciones(equipos) ==
    { {} } \cup { {id} : id \in UNION { Rango(equipos[i].flujos_salida) :
                                        i \in 1..Len(equipos) } }

\* Flow ids a caller may name: those of every shape.
IdsFlujo ==
    UNION { Rango(f.entrada) \cup Rango(f.salida) : f \in Formas }

(* ---------------------------------------------- identificar_flujos_globales *)

\* Mutant of IdentificarFlujosGlobales: the declared relave is not taken out
\* of the final concentrates.
IdentificarFlujosGlobales_SinRestarRelave(equipos, relave) ==
    LET entradas == UNION { Rango(equipos[i].flujos_entrada) : i \in 1..Len(equipos) }
        salidas  == UNION { Rango(equipos[i].flujos_salida) : i \in 1..Len(equipos) }
        flujos_salida == salidas \ entradas
    IN  [f_entrada     |-> entradas \ salidas,
         f_salida      |-> flujos_salida,
         f_salida_conc |-> flujos_salida,
         f_internos    |-> entradas \cap salidas]

IdentificarFlujosGlobales(equipos, relave) ==
    LET entradas == UNION { Rango(equipos[i].flujos_entrada) : i \in 1..Len(equipos) }
        salidas  == UNION { Rango(equipos[i].flujos_salida) : i \in 1..Len(equipos) }
        flujos_salida == salidas \ entradas
    IN  [f_entrada     |-> entradas \ salidas,
         f_salida      |-> flujos_salida,
         f_salida_conc |-> flujos_salida \ relave,
         f_internos    |-> entradas \cap salidas]

(* -------------------------------------------------------------- Simulador *)

VARIABLES
    equipos,                  \* Simulador.equipos, in dictionary order
    flujos,                   \* Simulador.flujos: id -> Flujo
    flujos_relave,            \* Simulador.flujos_relave
    iteraciones_convergencia, \* Simulador.iteraciones_convergencia
    f_entrada, f_salida, f_salida_conc, f_internos,  \* set in __init__
    pc,                       \* "config", "simular", "done" or "error"
    pasada,                   \* passes of simular() completed
    idx,                      \* nodes already recomputed in the current pass
    resultado,                \* what simular() returned
    traza,                    \* history: names of the nodes recomputed, in order
    ultimo,                   \* history: index of the node recomputed last (0: none)
    previo,                   \* history: flujos just before that recomputation
    flujos_p1                 \* history: flujos at the end of the first pass

circuito == <<equipos, flujos_relave, iteraciones_convergencia,
              f_entrada, f_salida, f_salida_conc, f_internos>>

\* The state of one call of Simulador.simular_montecarlo(config, alimentacion).
VARIABLES
    config,        \* the ConfiguracionMC argument
    alimentacion,  \* the alimentacion argument: id_flujo -> [masa, ley]
    pc_mc,         \* "inactivo", "copiar", "alimentar", "sortear", "resolver",
                   \* "retornado" or "raise"
    iteracion,     \* the loop variable i
    ref_mc,        \* which objects equipos_mc / flujos_mc name: "self" or "copia"
    equipos_mc,    \* the node dictionary copiar_estado created
    flujos_mc,     \* the flow dictionary copiar_estado created
    split_info,    \* the trial's split_info dictionary
    resultados,    \* the list of rows
    df,            \* the table returned
    error_mc,      \* the exception that reached the caller ("" for none)
    muestra,       \* history: the random draws of the current trial
    ensayos,       \* history: one entry per trial solved
    base0          \* history: the base nodes and flows when the run started

montecarlo == <<config, alimentacion, pc_mc, iteracion, ref_mc, equipos_mc,
                flujos_mc, split_info, resultados, df, error_mc, muestra,
                ensayos, base0>>

simulacion == <<pc, pasada, idx, resultado, traza, ultimo, previo, flujos_p1>>

vars == <<equipos, flujos, flujos_relave, iteraciones_convergencia,
          f_entrada, f_salida, f_salida_conc, f_internos,
          pc, pasada, idx, resultado, traza, ultimo, previo, flujos_p1,
          config, alimentacion, pc_mc, iteracion, ref_mc, equipos_mc,
          flujos_mc, split_info, resultados, df, error_mc, muestra,
          ensayos, base0>>

\* list(s)[0] for a set of ints: CPython iterates a set in hash-slot order,
\* hash(i) = i, and a set of up to four ids lives in a table of 8 slots.
PrimerElemento(s) == CHOOSE x \in s : \A y \in s : x % 8 <= y % 8

RECURSIVE SumaSobre(_, _, _)
\* sum(self.flujos[i].<campo> for i in ids)
SumaSobre(ids, fl, campo) ==
    IF ids = {} THEN Cero
    ELSE LET i == CHOOSE x \in ids : TRUE
         IN  RAdd(fl[i][campo], SumaSobre(ids \ {i}, fl, campo))

\* A computed number, or the ZeroDivisionError raised on the way to it.
Valor(x) == [err |-> FALSE, v |-> x]

\* Python's a / b on floats: raises ZeroDivisionError when b is 0.
PyDiv(a, b) == IF b[1] = 0 THEN [err |-> TRUE, v |-> Cero] ELSE Valor(RDiv(a, b))

\* x * 100 for the outcome x of a division.
Por100(x) == [x EXCEPT !.v = RMul(@, Cien)]

\* Mutant of Recuperacion: the division is not guarded.
Recuperacion_SinGuarda(cuf_conc, alim) ==
    Por100(PyDiv(cuf_conc, alim.contenido_fino))

\* (cuf_conc / alim.contenido_fino * 100) if alim.contenido_fino > 0 else 0
Recuperacion(cuf_conc, alim) ==
    IF RPos(alim.contenido_fino)
    THEN Por100(PyDiv(cuf_conc, alim.contenido_fino)) ELSE Valor(Cero)

\* Mutant of MassPull: a fraction, not a percentage.
MassPull_SinPorcentaje(masa_conc, alim) ==
    IF RPos(alim.masa) THEN PyDiv(masa_conc, alim.masa) ELSE Valor(Cero)

\* (masa_conc / alim.masa * 100) if alim.masa > 0 else 0
MassPull(masa_conc, alim) ==
    IF RPos(alim.masa) THEN Por100(PyDiv(masa_conc, alim.masa)) ELSE Valor(Cero)

\* (cuf_conc / masa_conc * 100) if masa_conc > 0 else 0
LeyConcentrado(cuf_conc, masa_conc) ==
    IF RPos(masa_conc) THEN Por100(PyDiv(cuf_conc, masa_conc)) ELSE Valor(Cero)

\* recuperacion / mass_pull if mass_pull > 0 else 0
RazonEnriquecimiento(recuperacion, mass_pull) ==
    IF RPos(mass_pull) THEN PyDiv(recuperacion, mass_pull) ELSE Valor(Cero)

ResultadoNulo ==
    [error |-> "", recuperacion |-> Cero, mass_pull |-> Cero,
     ley_concentrado |-> Cero, razon_enriquecimiento |-> Cero,
     error_masa |-> Cero, error_cuf |-> Cero, flujos |-> <<>>]

\* The reference feed: list(self.f_entrada)[0].
IdAlim(entrada) == PrimerElemento(entrada)

\* Mutant of ErrorBalance: the difference is taken the other way round.
ErrorBalance_Invertido(alim, fl, salida, campo) ==
    RSub(SumaSobre(salida, fl, campo), alim[campo])

\* 'error_masa': alim.masa - masa_salida, 'error_cuf': alim.contenido_fino -
\* cuf_salida, the sums taken over self.f_salida.
ErrorBalance(alim, fl, salida, campo) ==
    RSub(alim[campo], SumaSobre(salida, fl, campo))

\* The body of _calcular_resultados once the reference feed id_alim is picked.
CalcularResultadosCon(id_alim, fl, salida, salida_conc) ==
    LET alim      == fl[id_alim]
        masa_conc == SumaSobre(salida_conc, fl, "masa")
        cuf_conc  == SumaSobre(salida_conc, fl, "contenido_fino")
        recuperacion == Recuperacion(cuf_conc, alim)
        mass_pull    == MassPull(masa_conc, alim)
        ley_conc     == LeyConcentrado(cuf_conc, masa_conc)
        razon        == RazonEnriquecimiento(recuperacion.v, mass_pull.v)
    IN  IF recuperacion.err \/ mass_pull.err \/ ley_conc.err \/ razon.err
        THEN [ResultadoNulo EXCEPT !.error = "ZeroDivisionError"]
        ELSE [error                 |-> "",
              recuperacion          |-> recuperacion.v,
              mass_pull             |-> mass_pull.v,
              ley_concentrado       |-> ley_conc.v,
              razon_enriquecimiento |-> razon.v,
              error_masa            |-> ErrorBalance(alim, fl, salida, "masa"),
              error_cuf             |-> ErrorBalance(alim, fl, salida, "contenido_fino"),
              flujos |-> [k \in DOMAIN fl |-> [masa |-> fl[k].masa, ley |-> fl[k].ley]]]

\* Simulador._calcular_resultados on flow state fl; list(...)[0] of an empty
\* set raises IndexError.
CalcularResultados(fl, entrada, salida, salida_conc) ==
    IF entrada = {} THEN [ResultadoNulo EXCEPT !.error = "IndexError"]
    ELSE CalcularResultadosCon(IdAlim(entrada), fl, salida, salida_conc)

\* Optional[float]: None, or a value.
Ninguno == <<>>

\* An empty dictionary.
DictVacio == [x \in {} |-> Cero]

\* No simular_montecarlo call is under way.
MonteCarloInactivo ==
    /\ config = [equipos_objetivo |-> <<>>, rangos |-> DictVacio,
                 n_iteraciones |-> 0, ley_min |-> Ninguno, ley_max |-> Ninguno]
    /\ alimentacion = DictVacio
    /\ pc_mc = "inactivo"
    /\ iteracion = 0
    /\ ref_mc = [equipos |-> "copia", flujos |-> "copia"]
    /\ equipos_mc = <<>>
    /\ flujos_mc = DictVacio
    /\ split_info = DictVacio
    /\ resultados = <<>>
    /\ df = <<>>
    /\ error_mc = ""
    /\ muestra = <<>>
    /\ ensayos = <<>>
    /\ base0 = [equipos |-> <<>>, flujos |-> DictVacio]

\* Simulador.__init__ over a circuit built by crear_circuito_desde_dict.
Init ==
    /\ equipos \in Circuitos
    /\ flujos_relave \in RelaveOpciones(equipos)
    /\ iteraciones_convergencia \in 1..MaxIter
    /\ flujos = CrearFlujos(equipos)
    /\ LET g == IdentificarFlujosGlobales(equipos, flujos_relave)
       IN  /\ f_entrada = g.f_entrada
           /\ f_salida = g.f_salida
           /\ f_salida_conc = g.f_salida_conc
           /\ f_internos = g.f_internos
    /\ pc = "config"
    /\ pasada = 0
    /\ idx = 0
    /\ resultado = ResultadoNulo
    /\ traza = <<>>
    /\ ultimo = 0
    /\ previo = flujos
    /\ flujos_p1 = flujos
    /\ MonteCarloInactivo

\* Mutant of AlimentacionEn: contenido_fino is not derived again.
AlimentacionEn_SinContenidoFino(fl, id_flujo, masa, ley) ==
    IF id_flujo \in DOMAIN fl
    THEN [fl EXCEPT ![id_flujo] = [@ EXCEPT !.masa = masa, !.ley = ley]]
    ELSE fl

\* The body of establecer_alimentacion on the flow dictionary fl.
AlimentacionEn(fl, id_flujo, masa, ley) ==
    IF id_flujo \in DOMAIN fl
    THEN [fl EXCEPT ![id_flujo] =
             ActualizarContenidoFino([@ EXCEPT !.masa = masa, !.ley = ley])]
    ELSE fl

\* Simulador.establecer_alimentacion(id_flujo, masa, ley).
EstablecerAlimentacion(id_flujo, masa, ley) ==
    /\ pc = "config"
    /\ flujos' = AlimentacionEn(flujos, id_flujo, masa, ley)
    /\ UNCHANGED <<circuito, pc, pasada, idx, resultado, traza, ultimo, previo, flujos_p1>>
    /\ UNCHANGED montecarlo

\* Mutant of QuedanPasadas: the loop also stops once a pass changed nothing.
QuedanPasadas_HastaConverger ==
    /\ pasada < iteraciones_convergencia
    /\ ~(pasada >= 1 /\ idx = 0 /\ flujos = previo)

\* for _ in range(self.iteraciones_convergencia): whether the loop goes on.
QuedanPasadas == pasada < iteraciones_convergencia

\* One loop body of ejecutar_iteracion: equipo.calcular(self.flujos) on the
\* next node in dictionary order; nuevo is the flow state it leaves.
Paso(nuevo) ==
    /\ flujos' = nuevo
    /\ pc' = "simular"
    /\ IF idx + 1 = Len(equipos)
       THEN /\ idx' = 0
            /\ pasada' = pasada + 1
            /\ flujos_p1' = IF pasada = 0 THEN nuevo ELSE flujos_p1
       ELSE /\ idx' = idx + 1
            /\ UNCHANGED <<pasada, flujos_p1>>
    /\ traza' = Append(traza, equipos[idx + 1].nombre)
    /\ ultimo' = idx + 1
    /\ previo' = flujos
    /\ UNCHANGED <<circuito, resultado, montecarlo>>

CalcularCelda ==
    /\ pc \in {"config", "simular"}
    /\ QuedanPasadas
    /\ equipos[idx + 1].tipo = "celda"
    /\ Paso(CeldaCalcular(equipos[idx + 1], flujos))

CalcularSuma ==
    /\ pc \in {"config", "simular"}
    /\ QuedanPasadas
    /\ equipos[idx + 1].tipo = "suma"
    /\ Paso(SumaCalcular(equipos[idx + 1], flujos))

\* return self._calcular_resultados(), once the loop is over.
Retornar ==
    /\ pc = "simular"
    /\ ~QuedanPasadas
    /\ resultado' = CalcularResultados(flujos, f_entrada, f_salida, f_salida_conc)
    /\ pc' = IF resultado'.error = "" THEN "done" ELSE "error"
    /\ UNCHANGED <<circuito, flujos, pasada, idx, traza, ultimo, previo, flujos_p1>>
    /\ UNCHANGED montecarlo

Next ==
    \/ \E id_flujo \in f_entrada \cup (IdsFlujo \ DOMAIN flujos), v \in AlimValores :
          EstablecerAlimentacion(id_flujo, v[1], v[2])
    \/ CalcularCelda
    \/ CalcularSuma
    \/ Retornar

Spec == Init /\ [][Next]_vars

(* ----------------------------------------------- Simulador.simular, whole *)

RECURSIVE EjecutarIteracionDesde(_, _, _)
\* ejecutar_iteracion from node k on: equipo.calcular(flujos) in dictionary order.
EjecutarIteracionDesde(eqs, k, fl) ==
    IF k > Len(eqs) THEN fl
    ELSE EjecutarIteracionDesde(eqs, k + 1,
             IF eqs[k].tipo = "celda" THEN CeldaCalcular(eqs[k], fl)
                                      ELSE SumaCalcular(eqs[k], fl))

RECURSIVE IterarFlujos(_, _, _)
\* for _ in range(n): self.ejecutar_iteracion()
IterarFlujos(eqs, n, fl) ==
    IF n = 0 THEN fl ELSE IterarFlujos(eqs, n - 1, EjecutarIteracionDesde(eqs, 1, fl))

\* Simulador(eqs, fl, relave, iters).simular(): the flow state it leaves and
\* the record it returns (or the exception it raises).
Simular(eqs, fl, relave, iters) ==
    LET g     == IdentificarFlujosGlobales(eqs, relave)
        final == IterarFlujos(eqs, iters, fl)
    IN  [flujos    |-> final,
         resultado |-> CalcularResultados(final, g.f_entrada, g.f_salida,
                                          g.f_salida_conc)]

(* ------------------------------------------- simular_montecarlo: the inputs *)

\* Largest n_iteraciones of a Monte Carlo run.
MaxEnsayos == 2

\* [split_masa, split_cuf] of every Celda of the base circuit.
SplitBase == <<Rat(1, 10), Rat(3, 4)>>

FormaDe(nombre) == CHOOSE f \in Formas : f.nombre = nombre

\* The base circuits of a Monte Carlo run, by node names in dictionary order:
\* one splitter, a chain, a recycle loop and a loop without feed.
NombresMC ==
    { <<"Celda 1">>, <<"Celda 1", "Scavenger">>, <<"Mezclador", "Limpieza">>,
      <<"Retorno", "Limpieza">> }

CircuitosMC ==
    { [k \in 1..Len(ns) |-> CrearEquipo(FormaDe(ns[k]), SplitBase)] :
        ns \in { m \in NombresMC : Len(m) <= MaxEquipos } }

\* The base flows: as created, or as a previous simular() of 100 at 1.5 % on
\* flow 1 left them.
FlujosBase(eqs) ==
    LET nuevos == CrearFlujos(eqs)
        alim   == IF 1 \in DOMAIN nuevos
                  THEN [nuevos EXCEPT ![1] = ActualizarContenidoFino(
                            [@ EXCEPT !.masa = Cien, !.ley = Rat(3, 2)])]
                  ELSE nuevos
    IN  { nuevos, IterarFlujos(eqs, 1, alim) }

\* flujos_relave of the base Simulador: none, or the reject of the last node.
RelaveMC(eqs) ==
    { {}, {eqs[Len(eqs)].flujos_salida[Len(eqs[Len(eqs)].flujos_salida)]} }

\* config.equipos_objetivo: one node, the two nodes of the chain, the node of
\* the recycle loops.
Objetivos == { <<"Celda 1">>, <<"Scavenger", "Celda 1">>, <<"Limpieza">> }

RangoNormal == [masa |-> <<Rat(1, 50), Rat(1, 2)>>, cuf |-> <<Rat(1, 2), Rat(9, 10)>>]
\* low = high for split_masa.
RangoFijo   == [masa |-> <<Rat(1, 4), Rat(1, 4)>>,  cuf |-> <<Rat(1, 2), Rat(9, 10)>>]
\* No 'cuf' key.
RangoSinCuf == [masa |-> <<Rat(1, 50), Rat(1, 2)>>]

\* config.rangos: complete; a fixed split_masa for Celda 1 and no entry for
\* Scavenger; no 'cuf' range for Celda 1.
RangosOpciones ==
    { [n \in {"Celda 1", "Limpieza", "Scavenger"} |-> RangoNormal],
      [n \in {"Celda 1", "Limpieza"} |-> IF n = "Celda 1" THEN RangoFijo ELSE RangoNormal],
      [n \in {"Celda 1", "Limpieza", "Scavenger"} |->
          IF n = "Celda 1" THEN RangoSinCuf ELSE RangoNormal] }

\* The ConfiguracionMC objects explored; n_iteraciones is a positive integer.
Configuraciones ==
    [equipos_objetivo : Objetivos,
     rangos           : RangosOpciones,
     n_iteraciones    : 1..MaxEnsayos,
     ley_min          : { Ninguno, <<Rat(3, 1)>> },
     ley_max          : { Ninguno, <<Rat(4, 1)>> }]

\* alimentacion: flow 1 at 1.5 % or at 18 %, and flow 7 that no circuit holds.
Alimentaciones ==
    { [id \in {1, 7} |-> IF id = 1 THEN [masa |-> Cien, ley |-> ley]
                                   ELSE [masa |-> Rat(50, 1), ley |-> Cero]] :
        ley \in {Rat(3, 2), Rat(18, 1)} }

\* What random_sample() returns for (split_masa, split_cuf), in [0, 1).
Muestras == { <<Cero, Rat(1, 2)>>, <<Rat(1, 2), Cero>> }

\* a < b and a <= b on floats.
RLt(a, b) == a[1] * b[2] < b[1] * a[2]
RLe(a, b) == a[1] * b[2] <= b[1] * a[2]

(* --------------------------------------------- simular_montecarlo: the steps *)

\* Mutant of CopiarEstado: the nodes are copied, the flow dictionary is shared.
CopiarEstado_FlujosCompartidos(eqs, fls) ==
    [ref |-> [equipos |-> "copia", flujos |-> "self"], equipos |-> eqs, flujos |-> fls]

\* Mutant of CopiarEstado: the dictionaries themselves are handed back.
CopiarEstado_SinCopia(eqs, fls) ==
    [ref |-> [equipos |-> "self", flujos |-> "self"], equipos |-> eqs, flujos |-> fls]

\* copiar_estado: copy.deepcopy(equipos), copy.deepcopy(flujos): new objects
\* holding equal values.
CopiarEstado(eqs, fls) ==
    [ref |-> [equipos |-> "copia", flujos |-> "copia"], equipos |-> eqs, flujos |-> fls]

\* The dictionaries the trial's local names equipos_mc and flujos_mc refer to.
EquiposEnsayo == IF ref_mc.equipos = "self" THEN equipos ELSE equipos_mc
FlujosEnsayo  == IF ref_mc.flujos = "self" THEN flujos ELSE flujos_mc

\* A write through equipos_mc / flujos_mc lands in the object the name refers to.
EscribirEquipos(ref, eqs) ==
    /\ equipos' = IF ref.equipos = "self" THEN eqs ELSE equipos
    /\ equipos_mc' = IF ref.equipos = "self" THEN equipos_mc ELSE eqs
EscribirFlujos(ref, fls) ==
    /\ flujos' = IF ref.flujos = "self" THEN fls ELSE flujos
    /\ flujos_mc' = IF ref.flujos = "self" THEN flujos_mc ELSE fls

\* Mutant of AplicarAlimentacion: flows without a feed setting are zeroed.
AplicarAlimentacion_ReiniciaOtros(alim, fls) ==
    [id \in DOMAIN fls |->
        IF id \in DOMAIN alim
        THEN ActualizarContenidoFino(
                 [fls[id] EXCEPT !.masa = alim[id].masa, !.ley = alim[id].ley])
        ELSE FlujoNuevo]

\* The loop over alimentacion.items(): ids the flow dictionary lacks are skipped.
AplicarAlimentacion(alim, fls) ==
    [id \in DOMAIN fls |->
        IF id \in DOMAIN alim
        THEN ActualizarContenidoFino(
                 [fls[id] EXCEPT !.masa = alim[id].masa, !.ley = alim[id].ley])
        ELSE fls[id]]

\* Mutant of Uniform: the draw is scaled by high, not by high - low.
Uniform_SinRestarLow(rango, u) == RAdd(rango[1], RMul(rango[2], u))

\* np.random.uniform(low, high) = low + (high - low) * random_sample().
Uniform(rango, u) == RAdd(rango[1], RMul(RSub(rango[2], rango[1]), u))

\* nombre_eq in equipos_mc
EnCircuito(nombre, eqs) == \E j \in 1..Len(eqs) : eqs[j].nombre = nombre
Indice(nombre, eqs) == CHOOSE j \in 1..Len(eqs) : eqs[j].nombre = nombre

\* split_info with the two entries of one node set.
ConSplit(info, nombre, sp_masa, sp_cuf) ==
    [c \in DOMAIN info \cup {<<nombre, "sp_masa">>, <<nombre, "sp_cuf">>} |->
        IF c = <<nombre, "sp_masa">> THEN sp_masa
        ELSE IF c = <<nombre, "sp_cuf">> THEN sp_cuf ELSE info[c]]

\* Mutant of SortearDesde: a target missing from the circuit is an error.
RECURSIVE SortearDesde_ObjetivoObligatorio(_, _, _, _, _, _)
SortearDesde_ObjetivoObligatorio(objetivo, rangos, u, k, eqs, info) ==
    IF k > Len(objetivo) THEN [error |-> "", equipos |-> eqs, split_info |-> info]
    ELSE LET nombre == objetivo[k]
         IN  IF ~EnCircuito(nombre, eqs)
             THEN [error |-> "KeyError: rango", equipos |-> eqs, split_info |-> info]
             ELSE IF \/ nombre \notin DOMAIN rangos
                     \/ "masa" \notin DOMAIN rangos[nombre]
                     \/ "cuf" \notin DOMAIN rangos[nombre]
             THEN [error |-> "KeyError: rango", equipos |-> eqs, split_info |-> info]
             ELSE LET sp_masa == Uniform(rangos[nombre].masa, u[k][1])
                      sp_cuf  == Uniform(rangos[nombre].cuf, u[k][2])
                      j       == Indice(nombre, eqs)
                  IN  SortearDesde_ObjetivoObligatorio(objetivo, rangos, u, k + 1,
                          [eqs EXCEPT ![j].split_factor = <<sp_masa, sp_cuf>>],
                          ConSplit(info, nombre, sp_masa, sp_cuf))

\* Mutant of SortearDesde: a target without a complete range is skipped.
RECURSIVE SortearDesde_RangoOpcional(_, _, _, _, _, _)
SortearDesde_RangoOpcional(objetivo, rangos, u, k, eqs, info) ==
    IF k > Len(objetivo) THEN [error |-> "", equipos |-> eqs, split_info |-> info]
    ELSE LET nombre == objetivo[k]
         IN  IF \/ ~EnCircuito(nombre, eqs)
                \/ nombre \notin DOMAIN rangos
                \/ "masa" \notin DOMAIN rangos[nombre]
                \/ "cuf" \notin DOMAIN rangos[nombre]
             THEN SortearDesde_RangoOpcional(objetivo, rangos, u, k + 1, eqs, info)
             ELSE LET sp_masa == Uniform(rangos[nombre].masa, u[k][1])
                      sp_cuf  == Uniform(rangos[nombre].cuf, u[k][2])
                      j       == Indice(nombre, eqs)
                  IN  SortearDesde_RangoOpcional(objetivo, rangos, u, k + 1,
                          [eqs EXCEPT ![j].split_factor = <<sp_masa, sp_cuf>>],
                          ConSplit(info, nombre, sp_masa, sp_cuf))

RECURSIVE SortearDesde(_, _, _, _, _, _)
\* The loop over config.equipos_objetivo from target k on; u[k] holds the two
\* draws of target k.  config.rangos[nombre_eq], rangos['masa'] and
\* rangos['cuf'] raise KeyError on a missing key.
SortearDesde(objetivo, rangos, u, k, eqs, info) ==
    IF k > Len(objetivo) THEN [error |-> "", equipos |-> eqs, split_info |-> info]
    ELSE LET nombre == objetivo[k]
         IN  IF ~EnCircuito(nombre, eqs)
             THEN SortearDesde(objetivo, rangos, u, k + 1, eqs, info)
             ELSE IF \/ nombre \notin DOMAIN rangos
                     \/ "masa" \notin DOMAIN rangos[nombre]
                     \/ "cuf" \notin DOMAIN rangos[nombre]
             THEN [error |-> "KeyError: rango", equipos |-> eqs, split_info |-> info]
             ELSE LET sp_masa == Uniform(rangos[nombre].masa, u[k][1])
                      sp_cuf  == Uniform(rangos[nombre].cuf, u[k][2])
                      j       == Indice(nombre, eqs)
                  IN  SortearDesde(objetivo, rangos, u, k + 1,
                          [eqs EXCEPT ![j].split_factor = <<sp_masa, sp_cuf>>],
                          ConSplit(info, nombre, sp_masa, sp_cuf))

\* Mutant of LeyesValidas: a ley of exactly 36 passes.
LeyesValidas_Hasta36(res) ==
    \A k \in DOMAIN res.flujos : RLe(res.flujos[k].ley, Rat(36, 1))

\* all(v['ley'] < 36 for v in resultado['flujos'].values())
LeyesValidas(res) == \A k \in DOMAIN res.flujos : RLt(res.flujos[k].ley, Rat(36, 1))

\* Mutant of Aceptado: a solve that raised is not told apart.
Aceptado_SinExcept(res) == LeyesValidas(res)

\* Whether the try block reaches resultados.append(fila): simular() returned
\* and every ley is below 36; an exception or a high ley skips the trial.
Aceptado(res) == res.error = "" /\ LeyesValidas(res)

\* Mutant of Fila: trials are numbered from 1.
Fila_DesdeUno(i, res, info) ==
    [iteracion             |-> i + 1,
     recuperacion          |-> res.recuperacion,
     mass_pull             |-> res.mass_pull,
     ley_concentrado       |-> res.ley_concentrado,
     razon_enriquecimiento |-> res.razon_enriquecimiento,
     split_info            |-> info,
     flujos                |-> res.flujos]

\* The row of an accepted trial.
Fila(i, res, info) ==
    [iteracion             |-> i,
     recuperacion          |-> res.recuperacion,
     mass_pull             |-> res.mass_pull,
     ley_concentrado       |-> res.ley_concentrado,
     razon_enriquecimiento |-> res.razon_enriquecimiento,
     split_info            |-> info,
     flujos                |-> res.flujos]

\* Mutant of FiltrarLey: the upper bound is not applied.
FiltrarLey_SinMaximo(filas, ley_min, ley_max) ==
    LET SobreMin(f) == RLe(ley_min[1], f.ley_concentrado)
    IN  IF ley_min # Ninguno THEN SelectSeq(filas, SobreMin) ELSE filas

\* df[df['ley_concentrado'] >= ley_min], then df[df['ley_concentrado'] <=
\* ley_max], each only for a bound that is not None.
FiltrarLey(filas, ley_min, ley_max) ==
    LET SobreMin(f) == RLe(ley_min[1], f.ley_concentrado)
        BajoMax(f)  == RLe(f.ley_concentrado, ley_max[1])
        d1 == IF ley_min # Ninguno THEN SelectSeq(filas, SobreMin) ELSE filas
    IN  IF ley_max # Ninguno THEN SelectSeq(d1, BajoMax) ELSE d1

\* pd.DataFrame([]) has no columns: df['ley_concentrado'] raises KeyError.
SinColumna(filas) == filas = <<>>

\* The split factors the nodes of a circuit hold, by node name.
SplitsDe(eqs) ==
    [n \in { eqs[j].nombre : j \in 1..Len(eqs) } |-> eqs[Indice(n, eqs)].split_factor]

\* self.simular_montecarlo(config, alimentacion) is called on a Simulador
\* built over a base circuit.
InitMC ==
    /\ equipos \in CircuitosMC
    /\ flujos_relave \in RelaveMC(equipos)
    /\ iteraciones_convergencia \in {1, MaxIter}
    /\ flujos \in FlujosBase(equipos)
    /\ LET g == IdentificarFlujosGlobales(equipos, flujos_relave)
       IN  /\ f_entrada = g.f_entrada
           /\ f_salida = g.f_salida
           /\ f_salida_conc = g.f_salida_conc
           /\ f_internos = g.f_internos
    /\ pc = "config"
    /\ pasada = 0
    /\ idx = 0
    /\ resultado = ResultadoNulo
    /\ traza = <<>>
    /\ ultimo = 0
    /\ previo = flujos
    /\ flujos_p1 = flujos
    /\ config \in Configuraciones
    /\ alimentacion \in Alimentaciones
    /\ pc_mc = "copiar"
    /\ iteracion = 0
    /\ ref_mc = [equipos |-> "copia", flujos |-> "copia"]
    /\ equipos_mc = <<>>
    /\ flujos_mc = DictVacio
    /\ split_info = DictVacio
    /\ resultados = <<>>
    /\ df = <<>>
    /\ error_mc = ""
    /\ muestra = <<>>
    /\ ensayos = <<>>
    /\ base0 = [equipos |-> equipos, flujos |-> flujos]

fijos_mc == <<flujos_relave, iteraciones_convergencia, f_entrada, f_salida,
              f_salida_conc, f_internos, simulacion, config, alimentacion, base0>>

\* for i in iterador: equipos_mc, flujos_mc = copiar_estado(self.equipos, self.flujos)
ClonarEstado ==
    /\ pc_mc = "copiar"
    /\ iteracion < config.n_iteraciones
    /\ LET c == CopiarEstado(equipos, flujos)
       IN  /\ ref_mc' = c.ref
           /\ equipos_mc' = c.equipos
           /\ flujos_mc' = c.flujos
    /\ pc_mc' = "alimentar"
    /\ UNCHANGED <<fijos_mc, equipos, flujos, iteracion, split_info, resultados,
                   df, error_mc, muestra, ensayos>>

\* The feed settings are written into flujos_mc.
AlimentarEnsayo ==
    /\ pc_mc = "alimentar"
    /\ EscribirFlujos(ref_mc, AplicarAlimentacion(alimentacion, FlujosEnsayo))
    /\ pc_mc' = "sortear"
    /\ UNCHANGED <<fijos_mc, equipos, equipos_mc, ref_mc, iteracion, split_info,
                   resultados, df, error_mc, muestra, ensayos>>

\* split_info = {} and the sampling loop; a KeyError leaves the call.
SortearSplitFactors(u) ==
    /\ pc_mc = "sortear"
    /\ LET r == SortearDesde(config.equipos_objetivo, config.rangos, u, 1,
                             EquiposEnsayo, DictVacio)
       IN  /\ EscribirEquipos(ref_mc, r.equipos)
           /\ split_info' = r.split_info
           /\ pc_mc' = IF r.error = "" THEN "resolver" ELSE "raise"
           /\ error_mc' = r.error
    /\ muestra' = u
    /\ UNCHANGED <<fijos_mc, flujos, flujos_mc, ref_mc, iteracion, resultados,
                   df, ensayos>>

\* sim_temp = Simulador(...); the try block: simular(), the ley check, the
\* row; except Exception: continue.
ResolverEnsayo ==
    /\ pc_mc = "resolver"
    /\ \E s \in { Simular(EquiposEnsayo, FlujosEnsayo, flujos_relave,
                           iteraciones_convergencia) } :
       LET res == s.resultado
           aceptado == Aceptado(res)
       IN  /\ EscribirFlujos(ref_mc, s.flujos)
           /\ resultados' = IF aceptado
                            THEN Append(resultados, Fila(iteracion, res, split_info))
                            ELSE resultados
           /\ ensayos' = Append(ensayos,
                  [iteracion |-> iteracion, muestra |-> muestra,
                   resultado |-> res, aceptado |-> aceptado,
                   split_info |-> split_info,
                   splits |-> SplitsDe(EquiposEnsayo),
                   flujos_final |-> s.flujos])
    /\ iteracion' = iteracion + 1
    /\ pc_mc' = "copiar"
    /\ UNCHANGED <<fijos_mc, equipos, equipos_mc, ref_mc, split_info, df,
                   error_mc, muestra>>

\* df = pd.DataFrame(resultados), the two ley filters, return df.
FiltrarYRetornar ==
    /\ pc_mc = "copiar"
    /\ iteracion >= config.n_iteraciones
    /\ IF SinColumna(resultados) /\ (config.ley_min # Ninguno \/ config.ley_max # Ninguno)
       THEN /\ pc_mc' = "raise"
            /\ error_mc' = "KeyError: ley_concentrado"
            /\ df' = df
       ELSE /\ pc_mc' = "retornado"
            /\ error_mc' = error_mc
            /\ df' = FiltrarLey(resultados, config.ley_min, config.ley_max)
    /\ UNCHANGED <<fijos_mc, equipos, flujos, equipos_mc, flujos_mc, ref_mc,
                   iteracion, split_info, resultados, muestra, ensayos>>

NextMC ==
    \/ ClonarEstado
    \/ AlimentarEnsayo
    \/ \E u \in [1..Len(config.equipos_objetivo) -> Muestras] : SortearSplitFactors(u)
    \/ ResolverEnsayo
    \/ FiltrarYRetornar

SpecMC == InitMC /\ [][NextMC]_vars

(* ================================================================ claims *)

Entrada(i)  == equipos[i].flujos_entrada
Salida(i)   == equipos[i].flujos_salida
NEquipos    == Len(equipos)
Terminado   == pc \in {"done", "error"}

(* C1: simular() performs exactly iteraciones_convergencia full passes: every
   pass calls calcular() once on every node, in dictionary order, the same in
   every pass; the loop never stops early and the result record is produced
   only after the last pass. *)
C1_PasadasExactas ==
    /\ pasada <= iteraciones_convergencia
    /\ Len(traza) = pasada * NEquipos + idx
    /\ \A k \in 1..Len(traza) : traza[k] = equipos[((k - 1) % NEquipos) + 1].nombre
    /\ Terminado => /\ pasada = iteraciones_convergencia
                    /\ Len(traza) = iteraciones_convergencia * NEquipos
    /\ ~Terminado => resultado = ResultadoNulo

C1_Witness ==
    /\ pc = "done"
    /\ iteraciones_convergencia >= 2
    /\ NEquipos >= 2
    /\ resultado # ResultadoNulo

\* Node i writes a flow that node j reads.
Produce(i, j) == Rango(Salida(i)) \cap Rango(Entrada(j)) # {}

RECURSIVE Alcanza(_, _, _)
\* A chain of at most k Produce edges leads from node i to node j.
Alcanza(i, j, k) ==
    /\ k > 0
    /\ \/ Produce(i, j)
       \/ \E m \in 1..NEquipos : Produce(i, m) /\ Alcanza(m, j, k - 1)

\* No recycle stream: the flow graph has no cycle.
Aciclico == \A i \in 1..NEquipos : ~Alcanza(i, i, NEquipos)

\* Every node is stored after the nodes that produce its inputs.
OrdenTopologico == \A i, j \in 1..NEquipos : Produce(i, j) => i < j

\* What simular() returns when it runs a single pass.
ResultadoUnaPasada == CalcularResultados(flujos_p1, f_entrada, f_salida, f_salida_conc)

(* C2 as stated: for every circuit without recycle, whatever the order of its
   nodes, simular() with 1 pass returns the record that simular() with any
   larger pass count returns. *)
C2_UnaPasadaBasta ==
    (pc = "done" /\ Aciclico) => resultado = ResultadoUnaPasada

(* C2 amended: the same, for circuits whose nodes are stored in topological
   order (each node after the producers of its inputs). *)
C2_UnaPasadaBastaEnOrden ==
    (pc = "done" /\ OrdenTopologico) => resultado = ResultadoUnaPasada

C2_Witness ==
    /\ pc = "done"
    /\ OrdenTopologico
    /\ \E i, j \in 1..NEquipos : Produce(i, j)
    /\ iteraciones_convergencia >= 2
    /\ resultado.recuperacion # Cero

(* C3: calcular() of a node changes only the flows in its own flujos_salida;
   every field of every other flow, the node's inputs included, is the same
   after the call as before it. *)
C3_SoloEscribeSalidas ==
    ultimo # 0 =>
        \A id \in DOMAIN flujos \ Rango(Salida(ultimo)) : flujos[id] = previo[id]

(* C4: after Celda.calcular the concentrate and reject masses sum to the input
   flow's masa and their fine-contents sum to the input's contenido_fino. *)
C4_CeldaConserva ==
    (ultimo # 0 /\ equipos[ultimo].tipo = "celda") =>
        LET e == flujos[Entrada(ultimo)[1]]
            c == flujos[Salida(ultimo)[1]]
            r == flujos[Salida(ultimo)[2]]
        IN  /\ RAdd(c.masa, r.masa) = e.masa
            /\ e.masa = previo[Entrada(ultimo)[1]].masa
            /\ RAdd(c.contenido_fino, r.contenido_fino) = e.contenido_fino

C4_Witness ==
    /\ ultimo # 0
    /\ equipos[ultimo].tipo = "celda"
    /\ equipos[ultimo].split_factor = <<Rat(1, 10), Rat(3, 4)>>
    /\ flujos[Entrada(ultimo)[1]].masa = Cien
    /\ flujos[Salida(ultimo)[1]].contenido_fino = Rat(9, 8)
    /\ flujos[Salida(ultimo)[2]].masa = Rat(90, 1)

RECURSIVE SumaLista(_, _, _)
\* The sum of a field over a list of flow ids, repeated ids counted again.
SumaLista(ids, fl, campo) ==
    IF ids = <<>> THEN Cero
    ELSE RAdd(SumaLista(Tail(ids), fl, campo), fl[Head(ids)][campo])

(* C5: after Suma.calcular the output flow's masa is the sum of masa over the
   flows listed in flujos_entrada, and its contenido_fino the sum of theirs. *)
C5_SumaConserva ==
    (ultimo # 0 /\ equipos[ultimo].tipo = "suma") =>
        LET s == flujos[Salida(ultimo)[1]]
        IN  /\ s.masa = SumaLista(Entrada(ultimo), flujos, "masa")
            /\ s.masa = SumaLista(Entrada(ultimo), previo, "masa")
            /\ s.contenido_fino = SumaLista(Entrada(ultimo), flujos, "contenido_fino")
            /\ s.contenido_fino = SumaLista(Entrada(ultimo), previo, "contenido_fino")

C5_Witness ==
    /\ ultimo # 0
    /\ equipos[ultimo].tipo = "suma"
    /\ Len(Entrada(ultimo)) = 2
    /\ \A k \in 1..2 : flujos[Entrada(ultimo)[k]].masa # Cero
    /\ flujos[Salida(ultimo)[1]].contenido_fino # Cero

\* The reference feed simular() used.
Alim == flujos[IdAlim(f_entrada)]
MasaConc == SumaSobre(f_salida_conc, flujos, "masa")
CufConc  == SumaSobre(f_salida_conc, flujos, "contenido_fino")

\* The single-splitter scenario: feed 100 at 1.5 %, split (0.10, 0.75), the
\* reject declared as relave.
EscenarioCeldaUnica ==
    /\ NEquipos = 1
    /\ equipos[1].tipo = "celda"
    /\ equipos[1].flujos_entrada = <<1>>
    /\ equipos[1].flujos_salida = <<2, 3>>
    /\ equipos[1].split_factor = <<Rat(1, 10), Rat(3, 4)>>
    /\ flujos_relave = {3}
    /\ flujos[1].masa = Cien
    /\ flujos[1].ley = Rat(3, 2)

(* C6: the record's metrics are, on the final flow state, recuperacion =
   product fine / feed fine x 100, mass_pull = product mass / feed mass x 100,
   ley_concentrado = product fine / product mass x 100, razon_enriquecimiento
   = recuperacion / mass_pull, each 0 when its divisor is 0; the single
   splitter scenario gives 75, 10, 7.5 and both balance errors 0. *)
C6_Metricas ==
    pc = "done" =>
        LET r == resultado
        IN  /\ IF Alim.contenido_fino = Cero THEN r.recuperacion = Cero
               ELSE RMul(r.recuperacion, Alim.contenido_fino) = RMul(CufConc, Cien)
            /\ IF Alim.masa = Cero THEN r.mass_pull = Cero
               ELSE RMul(r.mass_pull, Alim.masa) = RMul(MasaConc, Cien)
            /\ IF MasaConc = Cero THEN r.ley_concentrado = Cero
               ELSE RMul(r.ley_concentrado, MasaConc) = RMul(CufConc, Cien)
            /\ IF r.mass_pull = Cero THEN r.razon_enriquecimiento = Cero
               ELSE RMul(r.razon_enriquecimiento, r.mass_pull) = r.recuperacion
            /\ EscenarioCeldaUnica =>
                  /\ r.recuperacion = Rat(75, 1)
                  /\ r.mass_pull = Rat(10, 1)
                  /\ r.razon_enriquecimiento = Rat(15, 2)
                  /\ r.error_masa = Cero
                  /\ r.error_cuf = Cero

C6_Witness == pc = "done" /\ EscenarioCeldaUnica /\ resultado.ley_concentrado = Rat(45, 4)

(* C7 as stated: whenever the reference feed has masa 0 or contenido_fino 0,
   the record has mass_pull = 0, recuperacion = 0 and ley_concentrado = 0 and
   no division error is raised, in every circuit. *)
C7_CeroSiAlimCero ==
    (Terminado /\ f_entrada # {} /\ (Alim.masa = Cero \/ Alim.contenido_fino = Cero)) =>
        /\ resultado.error = ""
        /\ resultado.mass_pull = Cero
        /\ resultado.recuperacion = Cero
        /\ resultado.ley_concentrado = Cero

(* C7 amended: no division error is raised in any circuit, and each metric is
   0 when its own divisor is 0: recuperacion when the reference feed's
   contenido_fino is 0, mass_pull when its masa is 0, ley_concentrado when the
   summed product mass is 0. *)
C7_CeroPorDivisor ==
    (Terminado /\ f_entrada # {}) =>
        /\ resultado.error = ""
        /\ Alim.contenido_fino = Cero => resultado.recuperacion = Cero
        /\ Alim.masa = Cero => resultado.mass_pull = Cero
        /\ MasaConc = Cero => resultado.ley_concentrado = Cero

C7_Witness ==
    /\ pc = "done"
    /\ Cardinality(f_entrada) >= 2
    /\ Alim.masa = Cero
    /\ Alim.contenido_fino = Cero
    /\ MasaConc # Cero
    /\ resultado.ley_concentrado # Cero

\* Flows some node produces and no node consumes.
Terminales ==
    { id \in DOMAIN flujos :
        /\ \E i \in 1..NEquipos : id \in Rango(Salida(i))
        /\ \A i \in 1..NEquipos : id \notin Rango(Entrada(i)) }

(* C8 as stated: error_masa is the reference feed's masa minus the sum of masa
   over the union of the declared relave flows and the product flows, and
   error_cuf likewise with contenido_fino, for every flujos_relave (a declared
   flow no node references carries nothing). *)
C8_ErrorSobreRelaveDeclarado ==
    pc = "done" =>
        LET ids == (flujos_relave \cup f_salida_conc) \cap DOMAIN flujos
        IN  /\ resultado.error_masa = RSub(Alim.masa, SumaSobre(ids, flujos, "masa"))
            /\ resultado.error_cuf =
                  RSub(Alim.contenido_fino, SumaSobre(ids, flujos, "contenido_fino"))

(* C8 amended: the sums run over the product flows and the declared relave
   flows that are terminal (produced by a node, consumed by none); a declared
   relave flow that some node consumes, or that no node produces, is left out. *)
C8_ErrorSobreTerminales ==
    pc = "done" =>
        LET ids == (flujos_relave \cap Terminales) \cup f_salida_conc
        IN  /\ resultado.error_masa = RSub(Alim.masa, SumaSobre(ids, flujos, "masa"))
            /\ resultado.error_cuf =
                  RSub(Alim.contenido_fino, SumaSobre(ids, flujos, "contenido_fino"))

C8_Witness ==
    /\ pc = "done"
    /\ flujos_relave \cap f_internos # {}
    /\ flujos_relave \cap Terminales = {}
    /\ Alim.masa # Cero
    /\ \E id \in flujos_relave : flujos[id].masa # Cero

\* How many of the classes in cs hold id.
Pertenencias(id, cs) == Cardinality({ k \in DOMAIN cs : id \in cs[k] })

(* C9 as stated: every referenced flow id is in exactly one of feed, product,
   discharge (the declared set) and internal, for every declared set. *)
C9_ParticionDeclarada ==
    \A id \in IdsReferenciados(equipos) :
        Pertenencias(id, <<f_entrada, f_salida_conc, flujos_relave, f_internos>>) = 1

(* C9 amended: every referenced flow id is in exactly one of feed, product,
   terminal discharge (the declared flows that are produced by a node and
   consumed by none) and internal; a declared flow that some node consumes is
   classified feed or internal. *)
C9_ParticionTerminal ==
    /\ f_salida \ f_salida_conc = flujos_relave \cap Terminales
    /\ \A id \in IdsReferenciados(equipos) :
          Pertenencias(id, <<f_entrada, f_salida_conc,
                             f_salida \ f_salida_conc, f_internos>>) = 1

C9_Witness ==
    /\ flujos_relave \cap f_internos # {}
    /\ f_entrada # {}
    /\ f_salida_conc # {}
    /\ pc = "done"

\* The lowest id of a set of flow ids.
MenorId(s) == CHOOSE x \in s : \A y \in s : x <= y

(* C10: with more than one feed flow, the reference feed of recuperacion,
   mass_pull and the balance errors is the feed flow with the lowest id. *)
C10_ReferenciaMenorId ==
    (pc = "done" /\ Cardinality(f_entrada) > 1) =>
        resultado = CalcularResultadosCon(MenorId(f_entrada), flujos, f_salida, f_salida_conc)

(* C11: simular() never raises for a circuit whose nodes reference only flows
   of the flow collection, whatever the topology, a circuit with no feed flow
   (every consumed flow is also produced) included: it always returns a
   record. *)
C11_SimularNoLanza == pc # "error"

(* ------------------------------------------------- simular_montecarlo claims *)

\* The trial entries whose simular() returned and whose leyes passed the check.
Aceptados == { k \in 1..Len(ensayos) : ensayos[k].aceptado }

\* The nodes of config.equipos_objetivo that the base circuit holds.
ObjetivosPresentes ==
    { config.equipos_objetivo[k] : k \in 1..Len(config.equipos_objetivo) }
        \cap { base0.equipos[j].nombre : j \in 1..Len(base0.equipos) }

(* C12: simular_montecarlo leaves the base Simulador untouched: in every state
   of a run, every base node (split_factor, input and output lists) and every
   base flow (masa, ley, contenido_fino) equals its value when the run
   started; feed settings and draws go to the per-trial copies. *)
C12_BaseIntacta ==
    /\ equipos = base0.equipos
    /\ flujos = base0.flujos

C12_Witness ==
    /\ pc_mc = "retornado"
    /\ \E k \in 1..Len(ensayos) : ensayos[k].aceptado
    /\ \E k \in 1..Len(ensayos) : ~ensayos[k].aceptado
    /\ \E id \in DOMAIN flujos : flujos[id].masa # Cero /\ flujos_mc[id] # flujos[id]
    /\ \E j \in 1..Len(equipos) : equipos_mc[j].split_factor # equipos[j].split_factor

\* One trial computed from the base state at the start of the run, the feed
\* settings and the draws u alone.
EnsayoPuro(u) ==
    LET fl == AplicarAlimentacion(alimentacion, base0.flujos)
        so == SortearDesde(config.equipos_objetivo, config.rangos, u, 1,
                           base0.equipos, DictVacio)
        res == Simular(so.equipos, fl, flujos_relave, iteraciones_convergencia).resultado
    IN  [resultado |-> res, aceptado |-> Aceptado(res), split_info |-> so.split_info]

(* C13: trials are independent: once a trial is over, the record or rejection
   of every trial so far is the one computed from the base state at the start
   of the run, the feed settings and that trial's own draws, whatever trials
   ran before it. *)
C13_EnsayosIndependientes ==
    pc_mc = "copiar" =>
        \A k \in 1..Len(ensayos) :
            \A p \in { EnsayoPuro(ensayos[k].muestra) } :
                /\ ensayos[k].resultado = p.resultado
                /\ ensayos[k].aceptado = p.aceptado
                /\ ensayos[k].split_info = p.split_info

C13_Witness ==
    /\ Len(ensayos) = 2
    /\ f_internos # {}
    /\ ensayos[1].muestra # ensayos[2].muestra
    /\ ensayos[1].aceptado
    /\ ensayos[2].aceptado
    /\ ensayos[1].resultado # ensayos[2].resultado
    /\ flujos # CrearFlujos(equipos)

\* The rows recorded for trial index i.
FilasDe(i) == { n \in 1..Len(resultados) : resultados[n].iteracion = i }

\* An exception left simular_montecarlo while a trial was under way.
LanzoEnEnsayo == pc_mc = "raise" /\ iteracion < config.n_iteraciones

(* C14 as stated: every runtime fault raised during a trial, while building it
   (cloning, feed settings, sampling, constructing the Simulador) or while
   solving it, is caught: no exception leaves the call in the middle of a
   trial. *)
C14_TodaFallaAtrapada == ~LanzoEnEnsayo

(* C14 amended: a fault raised while solving the trial (simular() inside the
   try block) is caught, the trial contributes no row and the loop goes on to
   the next trial; a fault raised while building the trial, which here is the
   KeyError of a missing range, is outside the try block and leaves the call. *)
C14_FallaAlResolverAtrapada ==
    /\ \A k \in 1..Len(ensayos) :
          ensayos[k].resultado.error # "" =>
              /\ ~ensayos[k].aceptado
              /\ FilasDe(ensayos[k].iteracion) = {}
    /\ pc_mc # "raise" => Len(ensayos) = iteracion
    /\ LanzoEnEnsayo => /\ error_mc = "KeyError: rango"
                        /\ Len(ensayos) = iteracion

C14_Witness ==
    /\ pc_mc = "retornado"
    /\ Len(ensayos) = 2
    /\ \A k \in 1..2 : ensayos[k].resultado.error = "IndexError"
    /\ resultados = <<>>
    /\ df = <<>>

\* Some flow of the trial's final state has a ley above 36.
ExcedeTecho(e) ==
    /\ e.resultado.error = ""
    /\ \E id \in DOMAIN e.resultado.flujos : RLt(Rat(36, 1), e.resultado.flujos[id].ley)

(* C15: a trial in which some flow's final ley exceeds 36 contributes no row
   to the table, and such trials never make simular_montecarlo raise to the
   caller. *)
C15_TechoDeLey ==
    /\ \A k \in 1..Len(ensayos) :
          ExcedeTecho(ensayos[k]) => FilasDe(ensayos[k].iteracion) = {}
    /\ ~(/\ pc_mc = "raise"
         /\ ensayos # <<>>
         /\ \A k \in 1..Len(ensayos) : ExcedeTecho(ensayos[k]))

\* equipos_objetivo names a node the circuit does not hold.
ObjetivoAusente ==
    \E k \in 1..Len(config.equipos_objetivo) :
        ~EnCircuito(config.equipos_objetivo[k], base0.equipos)

\* rangos has no complete entry for node n.
SinRango(n) ==
    \/ n \notin DOMAIN config.rangos
    \/ "masa" \notin DOMAIN config.rangos[n]
    \/ "cuf" \notin DOMAIN config.rangos[n]

\* A target node of the circuit has no complete range entry.
RangoFaltante == \E n \in ObjetivosPresentes : SinRango(n)

(* C16 as stated: when equipos_objetivo names a node that is not in the
   circuit the caller gets an error at setup time: no trial is solved and no
   table is returned. *)
C16_ObjetivoAusenteEsError ==
    ObjetivoAusente => (ensayos = <<>> /\ pc_mc # "retornado")

(* C16 amended: a target name that is not in the circuit is skipped: it raises
   nothing, nothing is drawn or recorded for it, every node that is not a
   target keeps its base split_factor, and the run goes on with the targets
   the circuit holds. *)
C16_ObjetivoAusenteOmitido ==
    /\ (pc_mc = "raise" /\ error_mc = "KeyError: rango") => RangoFaltante
    /\ \A k \in 1..Len(ensayos) :
          /\ DOMAIN ensayos[k].split_info =
                 ObjetivosPresentes \X {"sp_masa", "sp_cuf"}
          /\ \A j \in 1..Len(base0.equipos) :
                 base0.equipos[j].nombre \notin ObjetivosPresentes =>
                     ensayos[k].splits[base0.equipos[j].nombre] =
                         base0.equipos[j].split_factor

C16_Witness ==
    /\ pc_mc = "retornado"
    /\ ObjetivoAusente
    /\ ObjetivosPresentes # {}
    /\ df # <<>>

(* C17: when a target node of the circuit has no range entry (no
   rangos[node], or no 'masa' or 'cuf' key) simular_montecarlo raises to the
   caller: no trial is solved, no row is recorded and no table is returned. *)
C17_RangoFaltanteLanza ==
    RangoFaltante =>
        /\ pc_mc \in {"copiar", "alimentar", "sortear", "raise"}
        /\ iteracion = 0
        /\ ensayos = <<>>
        /\ resultados = <<>>
        /\ df = <<>>
        /\ pc_mc = "raise" => error_mc = "KeyError: rango"

C17_Witness ==
    /\ pc_mc = "raise"
    /\ error_mc = "KeyError: rango"
    /\ \E n \in ObjetivosPresentes : n \in DOMAIN config.rangos /\ SinRango(n)
    /\ config.n_iteraciones >= 2

\* low <= v < high
EnSemiabierto(v, rango) == RLe(rango[1], v) /\ RLt(v, rango[2])

\* low <= v <= high, and v < high when low < high.
EnRango(v, rango) ==
    /\ RLe(rango[1], v)
    /\ RLe(v, rango[2])
    /\ RLt(rango[1], rango[2]) => RLt(v, rango[2])

(* C18 as stated: in every row of the returned table and for every target
   node, <node>_sp_masa lies in [low, high) of rangos[node]['masa'] and
   <node>_sp_cuf in [low, high) of rangos[node]['cuf']. *)
C18_EnRangoSemiabierto ==
    pc_mc = "retornado" =>
        \A n \in 1..Len(df) : \A nodo \in ObjetivosPresentes :
            /\ EnSemiabierto(df[n].split_info[<<nodo, "sp_masa">>], config.rangos[nodo].masa)
            /\ EnSemiabierto(df[n].split_info[<<nodo, "sp_cuf">>], config.rangos[nodo].cuf)

(* C18 amended: every recorded <node>_sp_masa and <node>_sp_cuf lies in
   [low, high) of its range when low < high, and equals low when the range is
   the single point low = high. *)
C18_EnRangoCerrado ==
    pc_mc = "retornado" =>
        \A n \in 1..Len(df) : \A nodo \in ObjetivosPresentes :
            /\ EnRango(df[n].split_info[<<nodo, "sp_masa">>], config.rangos[nodo].masa)
            /\ EnRango(df[n].split_info[<<nodo, "sp_cuf">>], config.rangos[nodo].cuf)

C18_Witness ==
    /\ pc_mc = "retornado"
    /\ Len(df) = 2
    /\ \E nodo \in ObjetivosPresentes :
          /\ config.rangos[nodo].masa[1] = config.rangos[nodo].masa[2]
          /\ df[1].split_info[<<nodo, "sp_masa">>] = config.rangos[nodo].masa[1]
          /\ df[1].split_info[<<nodo, "sp_cuf">>] # df[2].split_info[<<nodo, "sp_cuf">>]

\* The row meets the configured ley bounds.
CumpleLey(f) ==
    /\ config.ley_min # Ninguno => RLe(config.ley_min[1], f.ley_concentrado)
    /\ config.ley_max # Ninguno => RLe(f.ley_concentrado, config.ley_max[1])

(* C19: every row of the returned table has ley_min <= ley_concentrado when
   ley_min is not None and ley_concentrado <= ley_max when ley_max is not
   None; a None bound removes no row, and the table holds every accepted
   trial's row that meets the bounds, in trial order. *)
C19_FiltroDeLey ==
    pc_mc = "retornado" =>
        /\ \A n \in 1..Len(df) : CumpleLey(df[n])
        /\ df = SelectSeq(resultados, CumpleLey)
        /\ (config.ley_min = Ninguno /\ config.ley_max = Ninguno) => df = resultados

C19_Witness ==
    /\ pc_mc = "retornado"
    /\ config.ley_min # Ninguno
    /\ config.ley_max # Ninguno
    /\ Len(resultados) = 2
    /\ Len(df) = 1
    /\ df[1].ley_concentrado = config.ley_min[1]
    /\ RLt(config.ley_max[1], resultados[1].ley_concentrado)

(* C20: each accepted trial yields exactly one row: its 'iteracion' is the
   trial's loop index, its four metrics are those simular() returned for the
   trial, its <node>_sp_masa / <node>_sp_cuf are the split factors the cloned
   node held during the solve, and it holds the final masa and ley of every
   flow of the cloned state by flow id; a rejected trial yields none. *)
C20_UnaFilaPorEnsayo ==
    /\ Len(resultados) = Cardinality(Aceptados)
    /\ \A k \in 1..Len(ensayos) :
          LET e == ensayos[k]
          IN  /\ e.iteracion = k - 1
              /\ Cardinality(FilasDe(e.iteracion)) = IF e.aceptado THEN 1 ELSE 0
              /\ \A n \in FilasDe(e.iteracion) :
                    LET f == resultados[n]
                    IN  /\ f.recuperacion = e.resultado.recuperacion
                        /\ f.mass_pull = e.resultado.mass_pull
                        /\ f.ley_concentrado = e.resultado.ley_concentrado
                        /\ f.razon_enriquecimiento = e.resultado.razon_enriquecimiento
                        /\ DOMAIN f.split_info = ObjetivosPresentes \X {"sp_masa", "sp_cuf"}
                        /\ \A nodo \in ObjetivosPresentes :
                              /\ f.split_info[<<nodo, "sp_masa">>] = e.splits[nodo][1]
                              /\ f.split_info[<<nodo, "sp_cuf">>] = e.splits[nodo][2]
                        /\ DOMAIN f.flujos = DOMAIN e.flujos_final
                        /\ \A id \in DOMAIN f.flujos :
                              /\ f.flujos[id].masa = e.flujos_final[id].masa
                              /\ f.flujos[id].ley = e.flujos_final[id].ley
    /\ (pc_mc = "copiar" /\ ensayos # <<>>) =>
          ensayos[Len(ensayos)].flujos_final = flujos_mc

C20_Witness ==
    /\ pc_mc = "copiar"
    /\ Len(ensayos) = 2
    /\ ~ensayos[1].aceptado
    /\ ensayos[2].aceptado
    /\ Len(resultados) = 1
    /\ resultados[1].iteracion = 1
    /\ Cardinality(ObjetivosPresentes) = 2
    /\ resultados[1].recuperacion # Cero

(* ---------------------------------------------------------- further claims *)

(* C21: establecer_alimentacion(id, masa, ley) on an id of the flow collection
   sets that flow's masa and ley to the values given and its contenido_fino to
   masa x ley / 100 and changes no other flow; on an id the collection lacks
   it changes nothing.  Stated of the call made in any state, on any id. *)
C21_AlimentacionSoloEseFlujo ==
    \A id \in IdsFlujo \cup {7} : \A v \in AlimValores :
        \A n \in { AlimentacionEn(flujos, id, v[1], v[2]) } :
            IF id \in DOMAIN flujos
            THEN /\ DOMAIN n = DOMAIN flujos
                 /\ n[id].masa = v[1]
                 /\ n[id].ley = v[2]
                 /\ RMul(n[id].contenido_fino, Cien) = RMul(v[1], v[2])
                 /\ \A otro \in DOMAIN flujos \ {id} : n[otro] = flujos[otro]
            ELSE n = flujos

C21_Witness ==
    /\ pc = "config"
    /\ 1 \in DOMAIN flujos /\ 8 \in DOMAIN flujos
    /\ flujos[1] = [masa |-> Cien, ley |-> Rat(3, 2), contenido_fino |-> Rat(3, 2)]
    /\ flujos[8] = [masa |-> Rat(50, 1), ley |-> Cero, contenido_fino |-> Cero]
    /\ flujos[5] = FlujoNuevo

(* ------------------------------------------------ SpecFlujo: one Flujo *)

\* Field values of a Flujo built directly (the dataclass accepts any float).
FlujoMasas == {Rat(-50, 1), Cero, Rat(1, 2), Rat(50, 1), Cien}
FlujoLeyes == {Cero, Rat(3, 2), Rat(30, 1), Rat(36, 1)}
FlujoFinos == {Rat(-3, 4), Cero, Rat(3, 4), Rat(3, 2), Rat(30, 1)}

\* Flujo(1, masa=..., ley=..., contenido_fino=...), outside any circuit.
InitFlujo ==
    /\ equipos = <<>>
    /\ flujos_relave = {}
    /\ iteraciones_convergencia = 1
    /\ flujos \in [{1} -> [masa : FlujoMasas, ley : FlujoLeyes,
                           contenido_fino : FlujoFinos]]
    /\ f_entrada = {}
    /\ f_salida = {}
    /\ f_salida_conc = {}
    /\ f_internos = {}
    /\ pc = "flujo"
    /\ pasada = 0
    /\ idx = 0
    /\ resultado = ResultadoNulo
    /\ traza = <<>>
    /\ ultimo = 0
    /\ previo = flujos
    /\ flujos_p1 = flujos
    /\ MonteCarloInactivo

fijos_flujo ==
    <<equipos, flujos_relave, iteraciones_convergencia, f_entrada, f_salida,
      f_salida_conc, f_internos, pasada, idx, resultado, traza, ultimo,
      flujos_p1, montecarlo>>

\* flujo.actualizar_ley(); previo keeps the flow as it was before the call.
FlujoActualizarLey ==
    /\ pc \in {"flujo", "actualizar_ley", "actualizar_contenido_fino"}
    /\ previo' = flujos
    /\ flujos' = [flujos EXCEPT ![1] = ActualizarLey(@)]
    /\ pc' = "actualizar_ley"
    /\ UNCHANGED fijos_flujo

\* flujo.actualizar_contenido_fino().
FlujoActualizarContenidoFino ==
    /\ pc \in {"flujo", "actualizar_ley", "actualizar_contenido_fino"}
    /\ previo' = flujos
    /\ flujos' = [flujos EXCEPT ![1] = ActualizarContenidoFino(@)]
    /\ pc' = "actualizar_contenido_fino"
    /\ UNCHANGED fijos_flujo

NextFlujo ==
    \/ FlujoActualizarLey
    \/ FlujoActualizarContenidoFino

SpecFlujo == InitFlujo /\ [][NextFlujo]_vars

(* C22: Flujo.actualizar_ley sets ley to contenido_fino / masa x 100 when masa
   is non-zero and to 0 when masa is 0, and leaves masa and contenido_fino as
   they were. *)
C22_LeySiMasaNoCero ==
    pc = "actualizar_ley" =>
        /\ flujos[1].masa = previo[1].masa
        /\ flujos[1].contenido_fino = previo[1].contenido_fino
        /\ previo[1].masa # Cero =>
               RMul(flujos[1].ley, previo[1].masa)
                   = RMul(previo[1].contenido_fino, Cien)
        /\ previo[1].masa = Cero => flujos[1].ley = Cero

(* C22, as the code has it: ley is contenido_fino / masa x 100 when masa is
   positive and 0 when masa is zero or negative; masa and contenido_fino are
   left as they were. *)
C22_LeySiMasaPositiva ==
    pc = "actualizar_ley" =>
        /\ flujos[1].masa = previo[1].masa
        /\ flujos[1].contenido_fino = previo[1].contenido_fino
        /\ RPos(previo[1].masa) =>
               RMul(flujos[1].ley, previo[1].masa)
                   = RMul(previo[1].contenido_fino, Cien)
        /\ ~RPos(previo[1].masa) => flujos[1].ley = Cero

C22_Witness ==
    /\ pc = "actualizar_ley"
    /\ previo[1].masa = Rat(-50, 1)
    /\ previo[1].contenido_fino = Rat(3, 4)
    /\ previo[1].ley = Rat(3, 2)
    /\ flujos[1].ley = Cero

(* ------------------------- SpecReciclo: simular() on the two-node loop *)

(* A hundred passes of the recycle loop leave fractions with a hundred-digit
   denominator, so here a float is an enclosure <<lo, hi>> of integers counting
   fixed-point units: every product rounds lo down and hi up, and the value
   the code computes over the reals lies between them.  In this specification
   flujos holds [masa, contenido_fino] enclosures.  The ley of a flow is
   contenido_fino / masa x 100 and is read only by Celda.calcular, which turns
   the ley of its input back into contenido_fino = masa x ley / 100: the input
   of the loop's Celda has masa > 0 or is still as created, so the
   contenido_fino it already has. *)

\* Fixed-point units per unit of masa and of contenido_fino.
EscalaMasa == 100000
EscalaCuf == 10000000

\* iteraciones_convergencia: int = 100
PasadasReciclo == 100

Punto(x) == <<x, x>>

\* floor(x * n / d) and ceil(x * n / d) for x, n >= 0 and d > 0, without
\* forming x * n.
MulAbajo(x, n, d) == (x \div d) * n + ((x % d) * n) \div d
MulArriba(x, n, d) == (x \div d) * n + ((x % d) * n + d - 1) \div d

\* x * f for an enclosure x and a rational f >= 0.
IPor(x, f) == <<MulAbajo(x[1], f[1], f[2]), MulArriba(x[2], f[1], f[2])>>
IMas(x, y) == <<x[1] + y[1], x[2] + y[2]>>

\* Flujo(id) and the flows of crear_circuito_desde_dict, as enclosures.
IntervaloNuevo == [masa |-> Punto(0), contenido_fino |-> Punto(0)]
CrearIntervalos(eqs) == [id \in IdsReferenciados(eqs) |-> IntervaloNuevo]

\* Mutant of CeldaIntervalo: the reject takes the concentrate's fractions.
CeldaIntervalo_RelaveComoConcentrado(eq, fl) ==
    LET e  == eq.flujos_entrada[1]
        c  == eq.flujos_salida[1]
        r  == eq.flujos_salida[2]
        m  == IPor(fl[e].masa, eq.split_factor[1])
        cf == IPor(fl[e].contenido_fino, eq.split_factor[2])
    IN  [fl EXCEPT ![c] = [masa |-> m, contenido_fino |-> cf],
                   ![r] = [masa |-> m, contenido_fino |-> cf]]

\* Celda.calcular on enclosures.
CeldaIntervalo(eq, fl) ==
    LET e  == eq.flujos_entrada[1]
        c  == eq.flujos_salida[1]
        r  == eq.flujos_salida[2]
        sp_masa == eq.split_factor[1]
        sp_cuf  == eq.split_factor[2]
        f1 == [fl EXCEPT ![c].masa = IPor(fl[e].masa, sp_masa)]
        f2 == [f1 EXCEPT ![r].masa = IPor(f1[e].masa, RSub(Uno, sp_masa))]
        f3 == [f2 EXCEPT ![c].contenido_fino = IPor(f2[e].contenido_fino, sp_cuf)]
    IN  [f3 EXCEPT ![r].contenido_fino =
                       IPor(f3[e].contenido_fino, RSub(Uno, sp_cuf))]

RECURSIVE AcumularIntervalos(_, _, _, _)
AcumularIntervalos(entradas, k, s, fl) ==
    IF k > Len(entradas) THEN fl
    ELSE LET id == entradas[k]
             g1 == [fl EXCEPT ![s].masa = IMas(fl[s].masa, fl[id].masa)]
             g2 == [g1 EXCEPT ![s].contenido_fino =
                                  IMas(g1[s].contenido_fino, g1[id].contenido_fino)]
         IN  AcumularIntervalos(entradas, k + 1, s, g2)

\* Suma.calcular on enclosures.
SumaIntervalo(eq, fl) ==
    LET s  == eq.flujos_salida[1]
        f0 == [fl EXCEPT ![s] = IntervaloNuevo]
    IN  AcumularIntervalos(eq.flujos_entrada, 1, s, f0)

RECURSIVE PasadaIntervalos(_, _, _)
\* ejecutar_iteracion from the k-th node on.
PasadaIntervalos(eqs, k, fl) ==
    IF k > Len(eqs) THEN fl
    ELSE PasadaIntervalos(eqs, k + 1,
             IF eqs[k].tipo = "celda" THEN CeldaIntervalo(eqs[k], fl)
                                      ELSE SumaIntervalo(eqs[k], fl))

\* Split pairs of the loop's Celda: the example's pairs, a pair of small ones
\* and a pair with a small fine-content factor.
SplitsReciclo ==
    { <<Rat(1, 10), Rat(3, 4)>>, <<Rat(3, 10), Rat(9, 10)>>,
      <<Rat(3, 20), Rat(3, 20)>>, <<Rat(1, 2), Rat(1, 10)>> }

\* The loop: a Suma of the feed (1) and the reject (8) into 5, and a Celda
\* splitting 5 into the product (6) and the reject (8); in either order.
CircuitosReciclo ==
    { [k \in 1..2 |-> CrearEquipo(FormaDe(ns[k]), sp)] :
        ns \in { <<"Mezclador", "Limpieza">>, <<"Limpieza", "Mezclador">> },
        sp \in SplitsReciclo }

\* Simulador(equipos, flujos) and establecer_alimentacion(1, 100, 1.5).
InitReciclo ==
    /\ equipos \in CircuitosReciclo
    /\ flujos_relave = {}
    /\ iteraciones_convergencia = PasadasReciclo
    /\ flujos = [CrearIntervalos(equipos) EXCEPT
                    ![1] = [masa |-> Punto(100 * EscalaMasa),
                            contenido_fino |-> Punto((3 * EscalaCuf) \div 2)]]
    /\ LET g == IdentificarFlujosGlobales(equipos, flujos_relave)
       IN  /\ f_entrada = g.f_entrada
           /\ f_salida = g.f_salida
           /\ f_salida_conc = g.f_salida_conc
           /\ f_internos = g.f_internos
    /\ pc = "simular"
    /\ pasada = 0
    /\ idx = 0
    /\ resultado = ResultadoNulo
    /\ traza = <<>>
    /\ ultimo = 0
    /\ previo = flujos
    /\ flujos_p1 = flujos
    /\ MonteCarloInactivo

\* One turn of the loop of simular(): a full ejecutar_iteracion.
PasadaReciclo ==
    /\ pc = "simular"
    /\ pasada < iteraciones_convergencia
    /\ previo' = flujos
    /\ flujos' = PasadaIntervalos(equipos, 1, flujos)
    /\ pasada' = pasada + 1
    /\ UNCHANGED <<equipos, flujos_relave, iteraciones_convergencia, f_entrada,
                   f_salida, f_salida_conc, f_internos, pc, idx, resultado,
                   traza, ultimo, flujos_p1, montecarlo>>

NextReciclo == PasadaReciclo

SpecReciclo == InitReciclo /\ [][NextReciclo]_vars

\* The loop's Celda and its split pair.
CeldaReciclo == CHOOSE i \in 1..Len(equipos) : equipos[i].tipo = "celda"
SpReciclo == equipos[CeldaReciclo].split_factor

\* Every value of the enclosure x is within 1e-6 (relative) of ref * den / num.
Cerca(x, num, den, ref) ==
    \A v \in {x[1], x[2]} :
        Abs(num * v - den * ref) <= (den * ref) \div 1000000

\* Every value of the enclosure x is away from ref * den / num by more than
\* 1e-6 (relative).
Lejos(x, num, den, ref) ==
    \A v \in {x[1], x[2]} :
        Abs(num * v - den * ref) > (den * ref) \div 1000000 + 1

\* The steady state of the loop for feed F and split s: flow 5 = F / s,
\* flow 6 = F, flow 8 = F (1 - s) / s, for masa and for contenido_fino.
EnEstadoEstacionario ==
    LET a == SpReciclo[1]
        b == SpReciclo[2]
        m == flujos[1].masa[1]
        c == flujos[1].contenido_fino[1]
    IN  /\ Cerca(flujos[5].masa, a[1], a[2], m)
        /\ Cerca(flujos[6].masa, 1, 1, m)
        /\ Cerca(flujos[8].masa, a[1], a[2] - a[1], m)
        /\ Cerca(flujos[5].contenido_fino, b[1], b[2], c)
        /\ Cerca(flujos[6].contenido_fino, 1, 1, c)
        /\ Cerca(flujos[8].contenido_fino, b[1], b[2] - b[1], c)

(* C23: for the two-node recycle loop, the flow values after 100 passes equal
   the closed-form steady state of the loop's linear system to within 1e-6,
   relative. *)
C23_CienPasadasConvergen ==
    pasada = PasadasReciclo => EnEstadoEstacionario

(* C23, as the code has it: each pass shrinks the distance to the steady state
   by the factor 1 - split, so the 100 passes reach it to within 1e-6 when both
   factors of the splitter are at least 0.15, and with a factor of 0.1 flow 5
   is still farther than 1e-6 from it. *)
C23_ConvergenSiSplitGrande ==
    pasada = PasadasReciclo =>
        /\ ( RLe(Rat(3, 20), SpReciclo[1]) /\ RLe(Rat(3, 20), SpReciclo[2]) )
               => EnEstadoEstacionario
        /\ SpReciclo[1] = Rat(1, 10) =>
               Lejos(flujos[5].masa, 1, 10, flujos[1].masa[1])
        /\ SpReciclo[2] = Rat(1, 10) =>
               Lejos(flujos[5].contenido_fino, 1, 10, flujos[1].contenido_fino[1])

C23_Witness ==
    /\ pasada = PasadasReciclo
    /\ SpReciclo = <<Rat(3, 20), Rat(3, 20)>>
    /\ EnEstadoEstacionario
    /\ previo # flujos

(* C24: when every trial of a run is discarded (caught fault or ley check),
   simular_montecarlo returns an empty table and does not raise, whether
   ley_min and ley_max are None or set. *)
C24_TodosDescartadosTablaVacia ==
    ( /\ pc_mc \in {"retornado", "raise"}
      /\ Len(ensayos) = config.n_iteraciones
      /\ Aceptados = {} )
        => (pc_mc = "retornado" /\ df = <<>>)

\* contenido_fino = masa x ley / 100.
Consistente(f) == RMul(f.contenido_fino, Cien) = RMul(f.masa, f.ley)

\* The flows the calcular() of node i writes: its outputs and, for a Celda,
\* its input.
Escritos(i) ==
    Rango(Salida(i)) \cup (IF equipos[i].tipo = "celda" THEN Rango(Entrada(i)) ELSE {})

(* C25: after any node's calcular(), each flow the node wrote has
   contenido_fino = masa x ley / 100, for every split pair within [0, 1]
   (split_masa = 0 with split_cuf > 0 included) and every input state. *)
C25_EscritosConsistentes ==
    ultimo # 0 => \A id \in Escritos(ultimo) : Consistente(flujos[id])

\* Every flow is written by at most one node and read by at most one node.
UnProductor ==
    \A i, j \in 1..NEquipos : i # j => Rango(Salida(i)) \cap Rango(Salida(j)) = {}
UnConsumidor ==
    \A i, j \in 1..NEquipos : i # j => Rango(Entrada(i)) \cap Rango(Entrada(j)) = {}

\* One more ejecutar_iteracion would change no field of any flow.
PuntoFijo == EjecutarIteracionDesde(equipos, 1, flujos) = flujos

\* One feed flow, single producers and consumers, only terminal flows declared
\* as discharge, and simular() has returned a steady state.
BalanceEstacionario ==
    /\ pc = "done"
    /\ Cardinality(f_entrada) = 1
    /\ UnProductor
    /\ UnConsumidor
    /\ flujos_relave \subseteq Terminales
    /\ PuntoFijo

(* C26: fine-content balance at steady state: with one feed flow, every flow
   produced by at most one node and consumed by at most one node, no flow
   declared as discharge other than a terminal one and split factors within
   [0, 1], whenever a further pass would change no flow value, error_cuf = 0. *)
C26_BalanceDeFino ==
    BalanceEstacionario => resultado.error_cuf = Cero

(* C27: mass balance at steady state: under the same conditions, whenever a
   further pass would change no flow value, error_masa = 0. *)
C27_BalanceDeMasa ==
    BalanceEstacionario => resultado.error_masa = Cero

C27_Witness ==
    /\ BalanceEstacionario
    /\ NEquipos = 2
    /\ f_internos # {}
    /\ Alim.masa = Cien
    /\ \A id \in f_salida : flujos[id].masa # Cero
    /\ flujos_relave # {}

(* C28: for a circuit without recycle of N nodes in which every flow is
   produced by at most one node, whatever the order of the nodes, the state
   after N passes is a fixed point: a further pass changes no field of any
   flow, so simular() with N passes and with any larger pass count return the
   same record; and once a pass has changed no flow, no later pass changes
   any. *)
C28_PuntoFijoTrasNPasadas ==
    /\ (Aciclico /\ UnProductor /\ idx = 0 /\ pasada >= NEquipos) => PuntoFijo
    /\ (Aciclico /\ UnProductor /\ pc = "done" /\ pasada >= NEquipos) =>
           \A mas \in 1..MaxIter :
               Simular(equipos, flujos, flujos_relave, mas).resultado = resultado
    /\ (idx = 0 /\ pasada = 2 /\ flujos = flujos_p1) =>
           \A mas \in 1..MaxIter : IterarFlujos(equipos, mas, flujos) = flujos

C28_Witness ==
    /\ pc = "done"
    /\ Aciclico /\ UnProductor
    /\ NEquipos = 2
    /\ pasada = NEquipos
    /\ ~OrdenTopologico
    /\ flujos # flujos_p1
    /\ PuntoFijo
    /\ resultado.recuperacion # Cero

\* The largest ley among the flows the trial's clone ends with is exactly 36.
TopeExacto(e) ==
    /\ \E id \in DOMAIN e.flujos_final : e.flujos_final[id].ley = Rat(36, 1)
    /\ \A id \in DOMAIN e.flujos_final : RLe(e.flujos_final[id].ley, Rat(36, 1))

(* C29: a trial whose solve completes without a fault is recorded if and only
   if the final ley of every flow of the cloned state, feed flows included, is
   strictly below 36; a trial with some ley of exactly 36 contributes no row. *)
C29_RegistradoSiiBajo36 ==
    \A k \in 1..Len(ensayos) :
        ensayos[k].resultado.error = "" =>
            /\ FilasDe(ensayos[k].iteracion) # {} <=>
                   \A id \in DOMAIN ensayos[k].flujos_final :
                       RLt(ensayos[k].flujos_final[id].ley, Rat(36, 1))
            /\ TopeExacto(ensayos[k]) => FilasDe(ensayos[k].iteracion) = {}

C29_Witness ==
    /\ pc_mc = "retornado"
    /\ Len(ensayos) = 2
    /\ ensayos[1].resultado.error = ""
    /\ TopeExacto(ensayos[1])
    /\ ensayos[1].flujos_final[1].ley = Rat(18, 1)
    /\ ensayos[1].flujos_final[2].ley = Rat(36, 1)
    /\ resultados = <<>>
    /\ df = <<>>

(* C30: in every trial, each node that is not a target is solved with its base
   split_factor and every flow without a feed setting starts the trial with
   its base value: at the start of the solve only the split factors of target
   nodes and the flows named in the feed settings differ from the base. *)
C30_SoloObjetivosYAlimentacion ==
    pc_mc = "resolver" =>
        /\ Len(EquiposEnsayo) = Len(base0.equipos)
        /\ \A j \in 1..Len(base0.equipos) :
              /\ EquiposEnsayo[j] =
                     [base0.equipos[j] EXCEPT
                         !.split_factor = EquiposEnsayo[j].split_factor]
              /\ base0.equipos[j].nombre \notin ObjetivosPresentes =>
                     EquiposEnsayo[j].split_factor = base0.equipos[j].split_factor
        /\ DOMAIN FlujosEnsayo = DOMAIN base0.flujos
        /\ \A id \in DOMAIN base0.flujos \ DOMAIN alimentacion :
              FlujosEnsayo[id] = base0.flujos[id]

C30_Witness ==
    /\ pc_mc = "resolver"
    /\ iteracion = 1
    /\ Len(base0.equipos) = 2
    /\ \E j \in 1..2 :
          /\ base0.equipos[j].tipo = "celda"
          /\ base0.equipos[j].nombre \notin ObjetivosPresentes
    /\ \E j \in 1..2 : EquiposEnsayo[j].split_factor # base0.equipos[j].split_factor
    /\ \E id \in DOMAIN base0.flujos \ DOMAIN alimentacion :
          /\ base0.flujos[id].masa # Cero
          /\ ensayos[1].flujos_final[id] # base0.flujos[id]
    /\ FlujosEnsayo[1] # base0.flujos[1]

====
